---- MODULE Spec2Model ----
(***************************************************************************)
(* The memory facade service of src/app.py: a shared-secret middleware in  *)
(* front of eight handlers, each a pass-through to the external memory     *)
(* store `m`.  The store is the environment: every value or exception it   *)
(* can hand back is chosen nondeterministically from a bounded pool.       *)
(*                                                                         *)
(* Python values are modelled structurally:                                *)
(*   None            [type |-> "NoneType"]                                 *)
(*   dict            [type |-> "dict", items |-> <function on its keys>]   *)
(*   list            [type |-> "list", elems |-> <sequence>]               *)
(*   opaque str      a TLA+ string ("" is the empty, falsy string)         *)
(*   date str        the sequence of its character codes, so that Python's *)
(*                   lexicographic <= on str can be computed               *)
(*   Optional[T]     PyNone or [type |-> "some", val |-> v]                *)
(***************************************************************************)
EXTENDS Integers, Sequences, FiniteSets, TLC

VARIABLES pc, req, calls, storeOut, resp

vars == <<pc, req, calls, storeOut, resp>>

\* ------------------------------------------------------------------ bounds
\* longest `results` list the store hands back
MaxResults == 2

\* ------------------------------------------------------------ Python values
PyNone == [type |-> "NoneType"]
PyDict(f) == [type |-> "dict", items |-> f]
PyList(s) == [type |-> "list", elems |-> s]
Some(v) == [type |-> "some", val |-> v]
EmptyItems == [k \in {} |-> PyNone]

\* isinstance(v, dict)
IsDict(v) == v.type = "dict"

\* `key in d` for a dict d
HasKey(d, key) == key \in DOMAIN d.items

\* bool(v) for the values the handlers test
Truthy(v) ==
    CASE v.type = "NoneType" -> FALSE
      [] v.type = "dict" -> DOMAIN v.items # {}
      [] v.type = "list" -> Len(v.elems) > 0
      [] v.type = "some" -> TRUE

\* ------------------------------------------------- outcomes of a try block
Returned(v) == [kind |-> "return", value |-> v]
RaisedHTTP(status_code, detail) ==
    [kind |-> "HTTPException", status_code |-> status_code, detail |-> detail]
Raised(msg) == [kind |-> "Exception", msg |-> msg]

StatusText(status_code) ==
    CASE status_code = 404 -> "404"
      [] status_code = 500 -> "500"

\* str(e) for the exception e caught by `except Exception as e`
StrOfException(e) ==
    IF e.kind = "HTTPException"
    THEN StatusText(e.status_code) \o ": " \o e.detail
    ELSE e.msg

\* the HTTP response the framework builds from a handler's outcome
Respond(r) ==
    IF r.kind = "return"
    THEN [status_code |-> 200, content |-> r.value]
    ELSE [status_code |-> r.status_code, content |-> [detail |-> r.detail]]

\* what the store did when called: returned a value or raised
StoreValue(v) == [raised |-> FALSE, value |-> v]
StoreError(msg) == [raised |-> TRUE, msg |-> msg]
NoOutcome == [raised |-> FALSE, value |-> PyNone, called |-> FALSE]

\* --------------------------------------------------------------- middleware
SECRET_KEY == "XQNlX3oy2rQzZKoBBAILdoxD"

ProtectedPrefixes ==
    {"/get_memories", "/add_memory", "/delete_memories", "/get_memory",
     "/update_memory", "/delete_memory", "/search_memories", "/memory_history"}

\* the tails a request path can carry after a route name; no route name is a
\* proper prefix of another, so these decide startswith on every path below
PathTails == {"", "/extra"}

\* str.startswith
StartsWith(s, prefix) == \E tail \in PathTails : s = prefix \o tail

IsProtected(path) == \E prefix \in ProtectedPrefixes : StartsWith(path, prefix)

\* a check that lets a request without the header through
KeyRejectedUnlessAbsent(secret_key) ==
    secret_key # PyNone /\ secret_key # Some(SECRET_KEY)

\* request.headers.get("X-Secret-Key") != SECRET_KEY
KeyRejected(secret_key) == secret_key # Some(SECRET_KEY)

Forbidden == [status_code |-> 403, content |-> [detail |-> "Forbidden: Invalid secret key"]]

\* ------------------------------------------------------------ get_memories
\* Python's <= on two str values, each the sequence of its character codes
RECURSIVE StrLeq(_, _)
StrLeq(a, b) ==
    IF a = <<>> THEN TRUE
    ELSE IF b = <<>> THEN FALSE
    ELSE IF Head(a) < Head(b) THEN TRUE
    ELSE IF Head(a) > Head(b) THEN FALSE
    ELSE StrLeq(Tail(a), Tail(b))

\* the loop with insert(0, ..) in place of append
RECURSIVE ProjectMemoriesReversed(_)
ProjectMemoriesReversed(results) ==
    IF results = <<>> THEN <<>>
    ELSE LET memory == Head(results) IN
         IF IsDict(memory) /\ HasKey(memory, "memory")
         THEN ProjectMemoriesReversed(Tail(results)) \o <<memory.items.memory>>
         ELSE ProjectMemoriesReversed(Tail(results))

\* the loop of lines 99-104: the 'memory' text of every well-shaped entry
RECURSIVE ProjectMemories(_)
ProjectMemories(results) ==
    IF results = <<>> THEN <<>>
    ELSE LET memory == Head(results) IN
         IF IsDict(memory) /\ HasKey(memory, "memory")
         THEN <<memory.items.memory>> \o ProjectMemories(Tail(results))
         ELSE ProjectMemories(Tail(results))

\* bool(start_date and end_date)
BothDates(start_date, end_date) ==
    /\ start_date.type = "some" /\ Len(start_date.val) > 0
    /\ end_date.type = "some" /\ Len(end_date.val) > 0

\* the condition of the comprehension of lines 107-110 on one entry:
\* "keep", "drop", or the message of the exception it raises
InDateRange(memory, start_date, end_date) ==
    CASE memory.type = "NoneType" -> "argument of type 'NoneType' is not iterable"
      [] memory.type = "list" ->
            IF \E i \in 1..Len(memory.elems) : memory.elems[i] = "created_at"
            THEN "list indices must be integers or slices, not str"
            ELSE "drop"
      [] memory.type = "dict" ->
            IF /\ HasKey(memory, "created_at")
               /\ StrLeq(start_date, memory.items.created_at)
               /\ StrLeq(memory.items.created_at, end_date)
            THEN "keep"
            ELSE "drop"

\* the comprehension of lines 107-110: Returned(<kept entries>) or Raised(..)
RECURSIVE FilterByDate(_, _, _)
FilterByDate(results, start_date, end_date) ==
    IF results = <<>> THEN Returned(<<>>)
    ELSE LET verdict == InDateRange(Head(results), start_date, end_date) IN
         IF verdict \notin {"keep", "drop"} THEN Raised(verdict)
         ELSE LET rest == FilterByDate(Tail(results), start_date, end_date) IN
              IF rest.kind # "return" THEN rest
              ELSE IF verdict = "keep"
                   THEN Returned(<<Head(results)>> \o rest.value)
                   ELSE rest

\* the comprehension of line 111: memory['memory'] of every kept entry
RECURSIVE ProjectFiltered(_)
ProjectFiltered(filtered_memories) ==
    IF filtered_memories = <<>> THEN Returned(<<>>)
    ELSE IF ~HasKey(Head(filtered_memories), "memory") THEN Raised("'memory'")
    ELSE LET rest == ProjectFiltered(Tail(filtered_memories)) IN
         IF rest.kind # "return" THEN rest
         ELSE Returned(<<Head(filtered_memories).items.memory>> \o rest.value)

\* lines 99-113
SelectMemories(results, start_date, end_date) ==
    IF BothDates(start_date, end_date)
    THEN LET filtered_memories == FilterByDate(results, start_date.val, end_date.val) IN
         IF filtered_memories.kind # "return" THEN filtered_memories
         ELSE ProjectFiltered(filtered_memories.value)
    ELSE Returned(ProjectMemories(results))

\* the try block, lines 90-113
GetMemoriesTry(out, start_date, end_date) ==
    IF out.raised THEN Raised(out.msg)
    ELSE LET all_memories == out.value IN
         IF ~IsDict(all_memories) \/ ~HasKey(all_memories, "results")
         THEN RaisedHTTP(500, "Invalid response format from memory store")
         ELSE IF ~Truthy(all_memories.items.results)
         THEN RaisedHTTP(404, "User not found")
         ELSE SelectMemories(all_memories.items.results.elems, start_date, end_date)

\* the handler without the `except HTTPException` clause of lines 115-116
GetMemoriesOutcomeCatchAll(out, start_date, end_date) ==
    LET r == GetMemoriesTry(out, start_date, end_date) IN
    IF r.kind = "return" THEN Returned(PyList(r.value))
    ELSE RaisedHTTP(500, StrOfException(r))

\* the handler with its except clauses, lines 89-119
GetMemoriesOutcome(out, start_date, end_date) ==
    LET r == GetMemoriesTry(out, start_date, end_date) IN
    IF r.kind = "return" THEN Returned(PyList(r.value))
    ELSE IF r.kind = "HTTPException" THEN r
    ELSE RaisedHTTP(500, StrOfException(r))

\* -------------------------------------------------------------- add_memory
\* a memo that lists the text twice, so that a failed add is tried again
MemoTwice(memory) == <<memory, memory>>

\* memo = [memory]
Memo(memory) == <<memory>>

\* the loop of lines 125-132 from element i on, the store answering attempt j
\* with outs[j]: the store calls it makes and what the handler returns
RECURSIVE AddMemoryLoop(_, _, _, _)
AddMemoryLoop(memo, user_id, outs, i) ==
    IF i > Len(memo) THEN [calls |-> <<>>, result |-> Returned(PyNone)]
    ELSE LET call == [op |-> "add", args |-> [data |-> memo[i], user_id |-> user_id]] IN
         IF ~outs[i].raised
         THEN [calls |-> <<call>>,
               result |-> Returned(PyDict([message |-> "Memory added successfully",
                                           memory_id |-> outs[i].value,
                                           user_id |-> user_id]))]
         ELSE LET rest == AddMemoryLoop(memo, user_id, outs, i + 1) IN
              [calls |-> <<call>> \o rest.calls, result |-> rest.result]

\* ----------------------------------- delete_memories, get_memory, delete_memory
\* try: return {"message": .., "result": <store value>}
\* except Exception as e: raise HTTPException(500, str(e))
PassThroughOutcome(out, message) ==
    IF out.raised THEN RaisedHTTP(500, StrOfException(Raised(out.msg)))
    ELSE Returned(PyDict([message |-> message, result |-> out.value]))

\* ------------------------------------------------------------ update_memory
\* the try block, lines 162-167
UpdateMemoryTry(out) ==
    IF out.raised THEN Raised(out.msg)
    ELSE LET updated_memory == out.value IN
         IF Truthy(updated_memory)
         THEN Returned(PyDict([updated_memory |-> updated_memory]))
         ELSE RaisedHTTP(404, "Memory not found")

\* `except Exception as e` of lines 168-169: HTTPException is an Exception
UpdateMemoryOutcome(out) ==
    LET r == UpdateMemoryTry(out) IN
    IF r.kind = "return" THEN r ELSE RaisedHTTP(500, StrOfException(r))

\* ----------------------------------------------------------- memory_history
\* the try block, lines 209-214
MemoryHistoryTry(out, memory_id) ==
    IF out.raised THEN Raised(out.msg)
    ELSE LET history == out.value IN
         IF Truthy(history)
         THEN Returned(PyDict([memory_id |-> memory_id, history |-> history]))
         ELSE RaisedHTTP(404, "No history found for the given memory ID")

\* `except Exception as e` of lines 216-217
MemoryHistoryOutcome(out, memory_id) ==
    LET r == MemoryHistoryTry(out, memory_id) IN
    IF r.kind = "return" THEN r ELSE RaisedHTTP(500, StrOfException(r))

\* ---------------------------------------------------------- search_memories
\* the relevance threshold 0.3; scores are counted in hundredths
ScoreThreshold == 30

\* any(agent_id): some entry is a non-empty string
AnyNonEmpty(agent_id) == \E i \in 1..Len(agent_id.elems) : agent_id.elems[i] # ""

\* the filter without the any(agent_id) test
BuildFiltersWithoutAny(user_id, agent_id) ==
    IF Truthy(agent_id)
    THEN [user_id |-> user_id, agent_id |-> [in |-> agent_id.elems]]
    ELSE [user_id |-> user_id]

\* lines 189-195
BuildFilters(user_id, agent_id) ==
    IF Truthy(agent_id) /\ AnyNonEmpty(agent_id)
    THEN [user_id |-> user_id, agent_id |-> [in |-> agent_id.elems]]
    ELSE [user_id |-> user_id]

\* the threshold taken inclusively
AboveThresholdInclusive(mem) == mem.items.score >= ScoreThreshold

\* mem['score'] > 0.3
AboveThreshold(mem) == mem.items.score > ScoreThreshold

\* the comprehension of line 199 on the list search_results['results']
RECURSIVE FilterByScore(_)
FilterByScore(results) ==
    IF results = <<>> THEN Returned(<<>>)
    ELSE IF ~HasKey(Head(results), "score") THEN Raised("'score'")
    ELSE LET rest == FilterByScore(Tail(results)) IN
         IF rest.kind # "return" THEN rest
         ELSE IF AboveThreshold(Head(results))
              THEN Returned(<<Head(results)>> \o rest.value)
              ELSE rest

\* the try block after the store call, lines 198-200
SearchMemoriesTry(out, query) ==
    IF out.raised THEN Raised(out.msg)
    ELSE LET search_results == out.value IN
         IF search_results.type = "NoneType"
         THEN Raised("'NoneType' object is not subscriptable")
         ELSE IF ~HasKey(search_results, "results") THEN Raised("'results'")
         ELSE LET memories_only == FilterByScore(search_results.items.results.elems) IN
              IF memories_only.kind # "return" THEN memories_only
              ELSE Returned(PyDict([query |-> query,
                                    results |-> PyList(memories_only.value)]))

\* `except Exception as e` of lines 201-202
SearchMemoriesOutcome(out, query) ==
    LET r == SearchMemoriesTry(out, query) IN
    IF r.kind = "return" THEN r ELSE RaisedHTTP(500, StrOfException(r))

\* ------------------------------------------------------------------ inputs
SeqsUpTo(S, n) == UNION {[1..k -> S] : k \in 0..n}

UserIds == {"u1", "u2"}
MemoryIds == {"id1", "id2"}
Texts == {"Buy milk", "Call mom"}
Queries == {"milk", "mom"}
Headers == {PyNone, Some(SECRET_KEY), Some("wrong")}

\* date strings "1", "10", "2", "9" as character codes: "10" sorts before "9"
DateStrings == {<<1>>, <<1, 0>>, <<2>>, <<9>>}
DateInputs == {PyNone} \cup {Some(d) : d \in DateStrings}

AgentIdInputs ==
    {PyNone, PyList(<<>>), PyList(<<"">>), PyList(<<"", "">>), PyList(<<"a1">>),
     PyList(<<"", "a1">>), PyList(<<"a1", "a2">>)}

Routes ==
    {"/get_memories", "/add_memory", "/delete_memories", "/get_memory",
     "/update_memory", "/delete_memory", "/search_memories", "/memory_history"}

Forms(path) ==
    CASE path = "/get_memories" ->
            {[user_id |-> u, start_date |-> s, end_date |-> e] :
                u \in UserIds, s \in DateInputs, e \in DateInputs}
      [] path = "/add_memory" -> {[memory |-> t, user_id |-> u] : t \in Texts, u \in UserIds}
      [] path = "/delete_memories" -> {[user_id |-> u] : u \in UserIds}
      [] path \in {"/get_memory", "/delete_memory", "/memory_history"} ->
            {[memory_id |-> i] : i \in MemoryIds}
      [] path = "/update_memory" ->
            {[memory_id |-> i, message |-> t] : i \in MemoryIds, t \in Texts}
      [] path = "/search_memories" ->
            {[query |-> q, user_id |-> u, agent_id |-> a] :
                q \in Queries, u \in UserIds, a \in AgentIdInputs}
      [] OTHER -> {EmptyItems}

Paths == {r \o t : r \in Routes, t \in PathTails} \cup {"/", "/health"}

\* ------------------------------------------------- what the store can answer
StoreErrors == {StoreError("connection refused")}

\* entries of get_all's 'results': dicts with or without 'memory' and
\* 'created_at', and values that are no dict at all
ResultEntries ==
    {PyDict(EmptyItems)}
    \cup {PyDict([memory |-> t]) : t \in Texts}
    \cup {PyDict([created_at |-> d]) : d \in DateStrings}
    \cup {PyDict([memory |-> t, created_at |-> d]) : t \in Texts, d \in DateStrings}
    \cup {PyNone, PyList(<<>>), PyList(<<"created_at">>)}

GetAllOutcomes ==
    StoreErrors
    \cup {StoreValue(PyNone), StoreValue(PyList(<<>>)),
          StoreValue(PyDict([relations |-> PyList(<<>>)]))}
    \cup {StoreValue(PyDict([results |-> PyList(r)])) : r \in SeqsUpTo(ResultEntries, MaxResults)}

AddOutcomes ==
    StoreErrors
    \cup {StoreValue(PyNone), StoreValue(PyDict([results |-> PyList(<<>>)]))}
    \cup {StoreValue(PyDict([results |-> PyList(<<PyDict([id |-> i, event |-> "ADD"])>>)])) :
            i \in MemoryIds}

AckOutcomes ==
    StoreErrors \cup {StoreValue(PyNone), StoreValue(PyDict([message |-> "ok"]))}

GetOutcomes ==
    StoreErrors
    \cup {StoreValue(PyNone)}
    \cup {StoreValue(PyDict([id |-> i, memory |-> t])) : i \in MemoryIds, t \in Texts}

UpdateOutcomes ==
    StoreErrors
    \cup {StoreValue(PyNone), StoreValue(PyDict(EmptyItems)),
          StoreValue(PyDict([message |-> "Memory updated successfully!"]))}

HistoryEntries == {PyDict([event |-> e]) : e \in {"ADD", "UPDATE"}}

HistoryOutcomes ==
    StoreErrors
    \cup {StoreValue(PyNone)}
    \cup {StoreValue(PyList(h)) : h \in SeqsUpTo(HistoryEntries, MaxResults)}

\* scores 0.10, 0.30, 0.31 and 0.90 in hundredths
Scores == {10, 30, 31, 90}

SearchHits ==
    {PyDict([id |-> i, score |-> n]) : i \in MemoryIds, n \in Scores}
    \cup {PyDict([id |-> "id1"])}

SearchOutcomes ==
    StoreErrors
    \cup {StoreValue(PyNone), StoreValue(PyDict(EmptyItems))}
    \cup {StoreValue(PyDict([results |-> PyList(r)])) : r \in SeqsUpTo(SearchHits, MaxResults)}

\* ------------------------------------------------------------------- state
NoResponse == [status_code |-> 0, content |-> PyNone]
NoRequest == [path |-> "", key |-> PyNone, form |-> EmptyItems]

Init ==
    /\ pc = "idle"
    /\ req = NoRequest
    /\ calls = <<>>
    /\ storeOut = NoOutcome
    /\ resp = NoResponse

\* a client sends a request
Receive ==
    /\ pc = "idle"
    /\ \E path \in Paths, key \in Headers :
         \E form \in Forms(path) :
            req' = [path |-> path, key |-> key, form |-> form]
    /\ pc' = "dispatch"
    /\ calls' = <<>>
    /\ storeOut' = NoOutcome
    /\ resp' = NoResponse

\* SecretKeyMiddleware.dispatch, lines 58-64: the request is turned away
dispatch_forbidden ==
    /\ pc = "dispatch"
    /\ IsProtected(req.path)
    /\ KeyRejected(req.key)
    /\ resp' = Forbidden
    /\ pc' = "done"
    /\ UNCHANGED <<req, calls, storeOut>>

\* SecretKeyMiddleware.dispatch, line 66: the request goes on to its handler
dispatch_call_next ==
    /\ pc = "dispatch"
    /\ ~(IsProtected(req.path) /\ KeyRejected(req.key))
    /\ pc' = "call_next"
    /\ UNCHANGED <<req, calls, storeOut, resp>>

\* one store call, its answer, and the handler's outcome
Handle(call, out, outcome) ==
    /\ calls' = Append(calls, call)
    /\ storeOut' = out
    /\ resp' = Respond(outcome)
    /\ pc' = "done"
    /\ UNCHANGED req

get_memories ==
    /\ pc = "call_next"
    /\ req.path = "/get_memories"
    /\ \E out \in GetAllOutcomes :
         Handle([op |-> "get_all", args |-> [user_id |-> req.form.user_id]], out,
                GetMemoriesOutcome(out, req.form.start_date, req.form.end_date))

add_memory ==
    /\ pc = "call_next"
    /\ req.path = "/add_memory"
    /\ LET memo == Memo(req.form.memory) IN
       \E outs \in [1..Len(memo) -> AddOutcomes] :
         LET run == AddMemoryLoop(memo, req.form.user_id, outs, 1) IN
         /\ calls' = calls \o run.calls
         /\ storeOut' = outs[Len(run.calls)]
         /\ resp' = Respond(run.result)
    /\ pc' = "done"
    /\ UNCHANGED req

delete_memories ==
    /\ pc = "call_next"
    /\ req.path = "/delete_memories"
    /\ \E out \in AckOutcomes :
         Handle([op |-> "delete_all", args |-> [user_id |-> req.form.user_id]], out,
                PassThroughOutcome(out, "All memories of " \o req.form.user_id
                                             \o " deleted successfully"))

get_memory ==
    /\ pc = "call_next"
    /\ req.path = "/get_memory"
    /\ \E out \in GetOutcomes :
         Handle([op |-> "get", args |-> [memory_id |-> req.form.memory_id]], out,
                PassThroughOutcome(out, "Memory found"))

update_memory ==
    /\ pc = "call_next"
    /\ req.path = "/update_memory"
    /\ \E out \in UpdateOutcomes :
         Handle([op |-> "update",
                 args |-> [memory_id |-> req.form.memory_id, data |-> req.form.message]],
                out, UpdateMemoryOutcome(out))

delete_memory ==
    /\ pc = "call_next"
    /\ req.path = "/delete_memory"
    /\ \E out \in AckOutcomes :
         Handle([op |-> "delete", args |-> [memory_id |-> req.form.memory_id]], out,
                PassThroughOutcome(out, "Memory deleted successfully"))

search_memories ==
    /\ pc = "call_next"
    /\ req.path = "/search_memories"
    /\ \E out \in SearchOutcomes :
         Handle([op |-> "search",
                 args |-> [query |-> req.form.query,
                           filters |-> BuildFilters(req.form.user_id, req.form.agent_id)]],
                out, SearchMemoriesOutcome(out, req.form.query))

get_memory_history ==
    /\ pc = "call_next"
    /\ req.path = "/memory_history"
    /\ \E out \in HistoryOutcomes :
         Handle([op |-> "history", args |-> [memory_id |-> req.form.memory_id]], out,
                MemoryHistoryOutcome(out, req.form.memory_id))

\* call_next on a path no handler is registered for: the router answers 404
no_route ==
    /\ pc = "call_next"
    /\ req.path \notin Routes
    /\ resp' = [status_code |-> 404, content |-> [detail |-> "Not Found"]]
    /\ pc' = "done"
    /\ UNCHANGED <<req, calls, storeOut>>

\* dispatch returns the response; the service is ready for the next request
Reply ==
    /\ pc = "done"
    /\ pc' = "idle"
    /\ req' = NoRequest
    /\ calls' = <<>>
    /\ storeOut' = NoOutcome
    /\ resp' = NoResponse

Next ==
    \/ Receive
    \/ dispatch_forbidden
    \/ dispatch_call_next
    \/ get_memories
    \/ add_memory
    \/ delete_memories
    \/ get_memory
    \/ update_memory
    \/ delete_memory
    \/ search_memories
    \/ get_memory_history
    \/ no_route
    \/ Reply

Spec == Init /\ [][Next]_vars

\* ------------------------------------------------------ claims: vocabulary
Authenticated == req.key = Some(SECRET_KEY)
Served(path) == pc = "done" /\ req.path = path /\ Authenticated

\* the paths that begin with one of the eight protected route names
ProtectedPaths == Paths \ {"/", "/health"}

\* lexicographic order on strings, stated by the first differing position
LexLeq(a, b) ==
    \/ Len(a) <= Len(b) /\ \A i \in 1..Len(a) : a[i] = b[i]
    \/ \E k \in 1..Len(a) :
         /\ k <= Len(b)
         /\ a[k] < b[k]
         /\ \A i \in 1..(k - 1) : a[i] = b[i]

\* the store answered get_all with a mapping whose 'results' is a list
GotResults ==
    /\ ~storeOut.raised
    /\ storeOut.value.type = "dict"
    /\ "results" \in DOMAIN storeOut.value.items

StoreResults == storeOut.value.items.results.elems

WellShaped(entry) == entry.type = "dict" /\ "memory" \in DOMAIN entry.items

InRange(entry) ==
    /\ entry.type = "dict"
    /\ "created_at" \in DOMAIN entry.items
    /\ LexLeq(req.form.start_date.val, entry.items.created_at)
    /\ LexLeq(entry.items.created_at, req.form.end_date.val)

\* the 'memory' texts of a sequence of well-shaped entries, in order
TextsOf(entries) == [i \in 1..Len(entries) |-> entries[i].items.memory]

NoDates == req.form.start_date = PyNone /\ req.form.end_date = PyNone
TwoDates == req.form.start_date # PyNone /\ req.form.end_date # PyNone

\* ---------------------------------------------------------------------- C1
\* C1: a request to a protected path whose X-Secret-Key is absent or wrong is
\* never forwarded to a handler, makes no store call, and ends in 403 with
\* {"detail": "Forbidden: Invalid secret key"}.
C1_ForbiddenBeforeStore ==
    (req.path \in ProtectedPaths /\ ~Authenticated)
        => /\ pc # "call_next"
           /\ calls = <<>>
           /\ pc = "done" =>
                resp = [status_code |-> 403,
                        content |-> [detail |-> "Forbidden: Invalid secret key"]]

C1_Witness ==
    /\ pc = "done"
    /\ req.path = "/add_memory"
    /\ req.key = PyNone
    /\ resp.status_code = 403
    /\ calls = <<>>

\* ---------------------------------------------------------------------- C2
\* C2: /update_memory answers 404 "Memory not found" when the store's update
\* returns a falsy value, 200 with {updated_memory: result} when it returns a
\* truthy one, and 500 only when the store raises.
C2_UpdateStatuses ==
    Served("/update_memory") =>
        /\ storeOut.raised <=> resp.status_code = 500
        /\ (~storeOut.raised /\ ~Truthy(storeOut.value)) =>
              resp = [status_code |-> 404, content |-> [detail |-> "Memory not found"]]
        /\ (~storeOut.raised /\ Truthy(storeOut.value)) =>
              resp = [status_code |-> 200,
                      content |-> PyDict([updated_memory |-> storeOut.value])]

\* ---------------------------------------------------------------------- C3
\* C3: /memory_history answers 404 "No history found for the given memory ID"
\* when the store's history is empty or falsy, 200 with the memory_id and the
\* unchanged history list otherwise, and 500 only when the store raises.
C3_HistoryStatuses ==
    Served("/memory_history") =>
        /\ storeOut.raised <=> resp.status_code = 500
        /\ (~storeOut.raised /\ ~Truthy(storeOut.value)) =>
              resp = [status_code |-> 404,
                      content |-> [detail |-> "No history found for the given memory ID"]]
        /\ (~storeOut.raised /\ Truthy(storeOut.value)) =>
              resp = [status_code |-> 200,
                      content |-> PyDict([memory_id |-> req.form.memory_id,
                                          history |-> storeOut.value])]

\* ---------------------------------------------------------------------- C4
\* C4: /get_memories answers 404 "User not found" whenever the store returns a
\* mapping whose 'results' is empty, with or without date bounds, and 500
\* whenever the store's answer is not a mapping containing 'results'.
C4_EmptyIs404 ==
    (Served("/get_memories") /\ ~storeOut.raised) =>
        /\ (GotResults /\ StoreResults = <<>>) =>
              resp = [status_code |-> 404, content |-> [detail |-> "User not found"]]
        /\ ~GotResults => resp.status_code = 500

C4_Witness ==
    /\ Served("/get_memories")
    /\ TwoDates
    /\ GotResults
    /\ StoreResults = <<>>
    /\ resp.status_code = 404

\* ---------------------------------------------------------------------- C5
\* C5: without date filters and with a non-empty 'results', /get_memories
\* answers 200 with exactly the 'memory' texts of the store's results, in the
\* store's order; when every entry carries a text the lengths agree.
C5_AllTextsInOrder ==
    (Served("/get_memories") /\ NoDates /\ GotResults /\ StoreResults # <<>>) =>
        /\ resp.status_code = 200
        /\ resp.content = PyList(TextsOf(SelectSeq(StoreResults, WellShaped)))
        /\ (\A i \in 1..Len(StoreResults) : WellShaped(StoreResults[i])) =>
              /\ Len(resp.content.elems) = Len(StoreResults)
              /\ \A i \in 1..Len(StoreResults) :
                    resp.content.elems[i] = StoreResults[i].items.memory

C5_Witness ==
    /\ Served("/get_memories")
    /\ NoDates
    /\ GotResults
    /\ Len(StoreResults) = 2
    /\ resp.status_code = 200
    /\ resp.content.elems = <<"Call mom", "Buy milk">>

\* ---------------------------------------------------------------------- C6
\* C6: with both date bounds and a non-empty 'results', /get_memories answers
\* 200 with exactly the texts, in store order, of the records whose created_at
\* lies lexicographically in [start_date, end_date] (an empty list when none
\* does); with fewer than two bounds no date filtering is applied.
C6_DateRange ==
    (Served("/get_memories") /\ GotResults /\ StoreResults # <<>>) =>
        /\ resp.status_code = 200
        /\ TwoDates =>
              resp.content = PyList(TextsOf(SelectSeq(StoreResults, InRange)))
        /\ ~TwoDates =>
              resp.content = PyList(TextsOf(SelectSeq(StoreResults, WellShaped)))

\* the same statement on results whose entries all carry a 'memory' text
C6_DateRangeOfWellShaped ==
    (/\ Served("/get_memories")
     /\ GotResults
     /\ \A i \in 1..Len(StoreResults) : WellShaped(StoreResults[i])) => C6_DateRange

\* ---------------------------------------------------------------------- C7
\* C7: every 200 answer of /search_memories carries the submitted query and
\* exactly the store's results whose score is strictly above 0.3, in the
\* store's order.
C7_ScoreAboveThreshold ==
    (Served("/search_memories") /\ resp.status_code = 200) =>
        LET returned == resp.content.items.results.elems
            found == storeOut.value.items.results.elems
        IN /\ \A i \in 1..Len(returned) : returned[i].items.score > 30
           /\ returned = SelectSeq(found, LAMBDA mem : mem.items.score > 30)
           /\ resp.content.items.query = req.form.query

C7_Witness ==
    /\ Served("/search_memories")
    /\ resp.status_code = 200
    /\ \E i \in 1..Len(storeOut.value.items.results.elems) :
          storeOut.value.items.results.elems[i].items.score = 30
    /\ Len(resp.content.items.results.elems) = 1

\* ---------------------------------------------------------------------- C8
\* C8: the filter /search_memories hands the store always has the submitted
\* user_id, and has the clause agent_id in <submitted list> exactly when
\* agent_id was supplied with at least one non-empty entry.
C8_SearchFilter ==
    Served("/search_memories") =>
        /\ Len(calls) = 1
        /\ calls[1].op = "search"
        /\ LET filters == calls[1].args.filters
               agent_id == req.form.agent_id
               restricts == /\ agent_id # PyNone
                            /\ \E i \in 1..Len(agent_id.elems) : agent_id.elems[i] # ""
           IN /\ filters.user_id = req.form.user_id
              /\ restricts => filters = [user_id |-> req.form.user_id,
                                         agent_id |-> [in |-> agent_id.elems]]
              /\ ~restricts => filters = [user_id |-> req.form.user_id]

C8_Witness ==
    /\ Served("/search_memories")
    /\ req.form.agent_id = PyList(<<"", "a1">>)
    /\ "agent_id" \in DOMAIN calls[1].args.filters

\* ---------------------------------------------------------------------- C9
\* C9: in /get_memories an entry that is no mapping or has no 'memory' field
\* is skipped: whenever 'results' is non-empty the answer is 200 with the texts
\* of the well-shaped (and, with both bounds, in-range) entries, both without
\* date filters and with both bounds supplied.
C9_MalformedSkipped ==
    (Served("/get_memories") /\ GotResults /\ StoreResults # <<>> /\ (NoDates \/ TwoDates)) =>
        /\ resp.status_code = 200
        /\ resp.content =
              PyList(TextsOf(SelectSeq(StoreResults,
                        LAMBDA entry : WellShaped(entry) /\ (TwoDates => InRange(entry)))))

\* --------------------------------------------------------------------- C10
\* C10: /add_memory calls the store's add exactly once; on success it answers
\* 200 with {message, memory_id: <store response>, user_id}; when add raises
\* the exception is swallowed, nothing is retried, and the answer is 200 with
\* a null body.
C10_AddOnce ==
    Served("/add_memory") =>
        /\ calls = <<[op |-> "add",
                      args |-> [data |-> req.form.memory, user_id |-> req.form.user_id]]>>
        /\ ~storeOut.raised =>
              resp = [status_code |-> 200,
                      content |-> PyDict([message |-> "Memory added successfully",
                                          memory_id |-> storeOut.value,
                                          user_id |-> req.form.user_id])]
        /\ storeOut.raised => resp = [status_code |-> 200, content |-> PyNone]

C10_Witness ==
    /\ Served("/add_memory")
    /\ storeOut.raised
    /\ Len(calls) = 1
    /\ resp.status_code = 200

====
